---------------------------- MODULE Spec2Model ----------------------------
(***************************************************************************)
(* The foreign-callback registration builder of the C API                  *)
(* (c-api/src/rewriter_builder.rs): HtmlRewriterBuilder, its registration  *)
(* functions, get_safe_handlers and the closures wrap_handler! produces.   *)
(***************************************************************************)
EXTENDS Integers, Sequences, FiniteSets

(***************************************************************************)
(* Bounds of the model.                                                    *)
(***************************************************************************)
\* successful registrations (document + element) on the builder
MaxRegs == 3

(***************************************************************************)
(* Values crossing the boundary.                                           *)
(***************************************************************************)
\* Option::None of a function pointer; also "no value" in a call record
None == "None"

\* Option::None of a closure (a field of ...ContentHandlers::default())
NoClosure == [some |-> FALSE]

\* the null context pointer
NullPtr == 0

\* context pointers (*mut c_void)
Ptrs == {NullPtr, 1, 2, 3}

\* the event object the engine hands to a closure for the length of one call
Events == {"E1"}

\* what the foreign code yields when called: nothing, as the function pointer
\* types (no return type) declare, or a control signal it means to give
ForeignResults == {None, "stop"}

DocKinds == {"doctype", "comments", "text"}

ElemKinds == {"element", "comments", "text"}

\* selector byte buffers callers pass: "a", "div", "[" and the lone byte 0xFF
SelectorInputs == { <<97>>, <<100, 105, 118>>, <<91>>, <<255>> }

\* (fn, ctx, fn, ctx, fn, ctx) argument lists of a document registration,
\* "H1" and "H2" being foreign function pointers:
\* only text; all three, comments and text sharing a function; none (with
\* context pointers still supplied)
DocArgInputs ==
    { <<None, NullPtr, None, NullPtr, "H1", 1>>,
      <<"H1", 1, "H2", 2, "H2", 3>>,
      <<None, 1, None, 2, None, 3>> }

\* argument lists of an element registration: only element (the absent
\* slots with a context pointer all the same); all three, with the context
\* pointers of the document list permuted
ElemArgInputs ==
    { <<"H2", 2, None, 1, None, 1>>,
      <<"H1", 3, "H2", 1, "H2", 2>> }

\* capacities a build's Vec gives the first allocation (before doubling):
\* 1 with the toolchains that grow 0, 1, 2, 4, .., 4 with those that grow
\* 0, 4, 8, ..  Only the element Vec's buffer is modelled: nothing keeps a
\* reference into the document Vec's.
MinNonZeroCaps == {1, 4}

Max(S) == CHOOSE x \in S : \A y \in S : y <= x

(***************************************************************************)
(* Selector validation: to_str! and str::parse::<Selector>.                *)
(***************************************************************************)
IsCont(b) == b >= 128 /\ b <= 191

\* length of the well-formed UTF-8 sequence starting at position i, 0 if none
Utf8SeqLen(bytes, i) ==
    LET b == bytes[i]
        n == Len(bytes)
        c(k) == i + k <= n /\ IsCont(bytes[i + k])
    IN  IF b <= 127 THEN 1
        ELSE IF b >= 194 /\ b <= 223 /\ c(1) THEN 2
        ELSE IF b >= 224 /\ b <= 239 /\ c(1) /\ c(2)
                /\ (b = 224 => bytes[i + 1] >= 160)
                /\ (b = 237 => bytes[i + 1] <= 159) THEN 3
        ELSE IF b >= 240 /\ b <= 244 /\ c(1) /\ c(2) /\ c(3)
                /\ (b = 240 => bytes[i + 1] >= 144)
                /\ (b = 244 => bytes[i + 1] <= 143) THEN 4
        ELSE 0

\* the code point of the sequence of length k at position i
Utf8CodePoint(bytes, i, k) ==
    IF k = 1 THEN bytes[i]
    ELSE IF k = 2 THEN (bytes[i] - 192) * 64 + (bytes[i + 1] - 128)
    ELSE IF k = 3 THEN (bytes[i] - 224) * 4096 + (bytes[i + 1] - 128) * 64
                       + (bytes[i + 2] - 128)
    ELSE (bytes[i] - 240) * 262144 + (bytes[i + 1] - 128) * 4096
         + (bytes[i + 2] - 128) * 64 + (bytes[i + 3] - 128)

RECURSIVE Utf8Decode(_, _)
\* the code points of bytes[i..] (ok), or not ok when they are not UTF-8
Utf8Decode(bytes, i) ==
    IF i > Len(bytes) THEN [ok |-> TRUE, val |-> << >>]
    ELSE LET k == Utf8SeqLen(bytes, i)
         IN  IF k = 0 THEN [ok |-> FALSE, val |-> << >>]
             ELSE LET rest == Utf8Decode(bytes, i + k)
                  IN  IF ~rest.ok THEN rest
                      ELSE [ok |-> TRUE,
                            val |-> << Utf8CodePoint(bytes, i, k) >> \o rest.val]

\* to_str!(selector, selector_len): Result<&str, Utf8Error>
to_str(bytes) == Utf8Decode(bytes, 1)

\* a character of a type selector's name: a letter or a non-ASCII code point
IsNameChar(c) == (c >= 97 /\ c <= 122) \/ (c >= 65 /\ c <= 90) \/ c >= 128

\* selector.parse::<Selector>(): the parsed form of a type selector
parse(text) ==
    IF Len(text) > 0 /\ \A i \in 1..Len(text) : IsNameChar(text[i])
    THEN [ok |-> TRUE, val |-> [type_selector |-> text]]
    ELSE [ok |-> FALSE, val |-> [type_selector |-> << >>]]

\* the status unwrap_or_ret_err_code! returns on Err
ERR_CODE == -1

\* every parsed selector a caller can have registered
Selectors ==
    { parse(to_str(b).val).val :
        b \in { x \in SelectorInputs : to_str(x).ok /\ parse(to_str(x).val).ok } }

(***************************************************************************)
(* State.                                                                  *)
(***************************************************************************)
VARIABLES
    builder,                    \* "none", "live" or "freed": the Box behind the handle
    document_content_handlers,  \* Vec<ExternDocumentContentHandlers>
    element_content_handlers,   \* Vec<(Selector, ExternElementContentHandlers)>
    element_cap,                \* capacity of element_content_handlers
    element_buf,                \* identity of its heap buffer (allocations so far)
    min_non_zero_cap,           \* the build's first Vec capacity
    safe,                       \* << the SafeContentHandlers last produced >>, or << >>
    call,                       \* the last operation: its arguments and its result
    doc_calls,                  \* history: argument lists of the document registrations
    elem_calls                  \* history: (selector bytes, argument list) of the element
                                \* registrations that returned 0

vars == << builder, document_content_handlers, element_content_handlers,
           element_cap, element_buf, min_non_zero_cap, safe, call,
           doc_calls, elem_calls >>

\* the record of one operation: the selector buffer and the status of an
\* element registration; the slot, the event and the foreign calls of a
\* dispatch, with what each foreign call yielded
Call(op, selector, ret) ==
    [op |-> op, selector |-> selector, ret |-> ret,
     slot |-> << >>, event |-> None, foreign |-> << >>, yielded |-> << >>]

(***************************************************************************)
(* Handler slots and their adaptation into closures.                       *)
(***************************************************************************)
\* ExternHandler::new
ExternHandler_new(handler, user_data) ==
    [handler |-> handler, user_data |-> user_data]

\* the closure of wrap_handler! with the user data captured by reference
wrap_handler_by_ref(handler, user_data) ==
    [some |-> TRUE, handler |-> handler, user_data |-> user_data,
     capture |-> "ref"]

\* wrap_handler!: a move closure over the function pointer and a local copy
\* of the user data pointer
wrap_handler(handler, user_data) ==
    [some |-> TRUE, handler |-> handler, user_data |-> user_data,
     capture |-> "move"]

\* the struct literal of the document registration
ExternDocumentContentHandlers(a) ==
    [doctype  |-> ExternHandler_new(a[1], a[2]),
     comments |-> ExternHandler_new(a[3], a[4]),
     text     |-> ExternHandler_new(a[5], a[6])]

\* the element registration's struct literal with the user data of the
\* comments and text slots exchanged
ExternElementContentHandlers_crossed(a) ==
    [element  |-> ExternHandler_new(a[1], a[2]),
     comments |-> ExternHandler_new(a[3], a[6]),
     text     |-> ExternHandler_new(a[5], a[4])]

\* the struct literal of the element registration
ExternElementContentHandlers(a) ==
    [element  |-> ExternHandler_new(a[1], a[2]),
     comments |-> ExternHandler_new(a[3], a[4]),
     text     |-> ExternHandler_new(a[5], a[6])]

\* as_safe_document_content_handlers with the comments block testing and
\* wrapping the text slot's function pointer
as_safe_document_content_handlers_copy_paste(self) ==
    [doctype  |-> IF self.doctype.handler # None
                  THEN wrap_handler(self.doctype.handler, self.doctype.user_data)
                  ELSE NoClosure,
     comments |-> IF self.text.handler # None
                  THEN wrap_handler(self.text.handler, self.comments.user_data)
                  ELSE NoClosure,
     text     |-> IF self.text.handler # None
                  THEN wrap_handler(self.text.handler, self.text.user_data)
                  ELSE NoClosure]

\* DocumentContentHandlers::default() with a closure set for each present slot
as_safe_document_content_handlers(self) ==
    [doctype  |-> IF self.doctype.handler # None
                  THEN wrap_handler(self.doctype.handler, self.doctype.user_data)
                  ELSE NoClosure,
     comments |-> IF self.comments.handler # None
                  THEN wrap_handler(self.comments.handler, self.comments.user_data)
                  ELSE NoClosure,
     text     |-> IF self.text.handler # None
                  THEN wrap_handler(self.text.handler, self.text.user_data)
                  ELSE NoClosure]

\* as_safe_element_content_handlers with the comments closure wrapped
\* around the text slot's user data
as_safe_element_content_handlers_crossed(self) ==
    [element  |-> IF self.element.handler # None
                  THEN wrap_handler(self.element.handler, self.element.user_data)
                  ELSE NoClosure,
     comments |-> IF self.comments.handler # None
                  THEN wrap_handler(self.comments.handler, self.text.user_data)
                  ELSE NoClosure,
     text     |-> IF self.text.handler # None
                  THEN wrap_handler(self.text.handler, self.text.user_data)
                  ELSE NoClosure]

\* ElementContentHandlers::default() with a closure set for each present slot
as_safe_element_content_handlers(self) ==
    [element  |-> IF self.element.handler # None
                  THEN wrap_handler(self.element.handler, self.element.user_data)
                  ELSE NoClosure,
     comments |-> IF self.comments.handler # None
                  THEN wrap_handler(self.comments.handler, self.comments.user_data)
                  ELSE NoClosure,
     text     |-> IF self.text.handler # None
                  THEN wrap_handler(self.text.handler, self.text.user_data)
                  ELSE NoClosure]

\* &'b Selector: a reference to slot idx of the element Vec's buffer buf
SelectorRef(buf, idx) == [buf |-> buf, idx |-> idx]

\* HtmlRewriterBuilder::get_safe_handlers over the two Vecs
get_safe_handlers(dch, ech, buf) ==
    [document |-> [i \in 1..Len(dch) |-> as_safe_document_content_handlers(dch[i])],
     element  |-> [i \in 1..Len(ech) |->
                      << SelectorRef(buf, i),
                         as_safe_element_content_handlers(ech[i][2]) >>]]

(***************************************************************************)
(* References held by a SafeContentHandlers.                               *)
(***************************************************************************)
\* what freed memory holds when it is no selector
Garbage == [garbage |-> TRUE]

\* whether a &Selector still points at a live slot of the element Vec
RefValid(r) ==
    /\ builder = "live"
    /\ r.buf = element_buf
    /\ r.idx <= Len(element_content_handlers)

\* what a read through a &Selector can yield: the selector while the
\* reference is valid, anything once it dangles
ReadSelector(r) ==
    IF RefValid(r) THEN { element_content_handlers[r.idx][1] }
    ELSE Selectors \cup {Garbage}

\* the user data pointer a closure passes on: its copy, or, captured by
\* reference, the field while the builder lives and anything afterwards
Captured(closure) ==
    IF closure.capture = "move" \/ builder = "live"
    THEN { closure.user_data }
    ELSE Ptrs

(***************************************************************************)
(* Vec::push on element_content_handlers.                                  *)
(***************************************************************************)
\* the capacity after a push onto a Vec of length len and capacity cap
GrownCap(cap, len) ==
    IF len < cap THEN cap ELSE Max({2 * cap, len + 1, min_non_zero_cap})

\* element_content_handlers.insert(0, ..) in place of push
push_element_front(ech, entry) == << entry >> \o ech

\* a push that skips a selector the Vec already holds
push_element_dedup(ech, entry) ==
    IF \E i \in 1..Len(ech) : ech[i][1] = entry[1] THEN ech ELSE Append(ech, entry)

\* builder.element_content_handlers.push((selector, handlers))
push_element(ech, entry) == Append(ech, entry)

(***************************************************************************)
(* Operations.                                                             *)
(***************************************************************************)
Init ==
    /\ builder = "none"
    /\ document_content_handlers = << >>
    /\ element_content_handlers = << >>
    /\ element_cap = 0
    /\ element_buf = 0
    /\ min_non_zero_cap \in MinNonZeroCaps
    /\ safe = << >>
    /\ call = Call("none", << >>, None)
    /\ doc_calls = << >>
    /\ elem_calls = << >>

\* a constructor that starts the builder with one document handler set
\* (without handlers) already in it
rewriter_builder_new_with_entry ==
    /\ builder = "none"
    /\ builder' = "live"
    /\ document_content_handlers' =
           << ExternDocumentContentHandlers(
                 << None, NullPtr, None, NullPtr, None, NullPtr >>) >>
    /\ element_content_handlers' = << >>
    /\ element_cap' = 0
    /\ call' = Call("new", << >>, None)
    /\ UNCHANGED << element_buf, min_non_zero_cap, safe, doc_calls, elem_calls >>

\* cool_thing_rewriter_builder_new
cool_thing_rewriter_builder_new ==
    /\ builder = "none"
    /\ builder' = "live"
    /\ document_content_handlers' = << >>
    /\ element_content_handlers' = << >>
    /\ element_cap' = 0
    /\ call' = Call("new", << >>, None)
    /\ UNCHANGED << element_buf, min_non_zero_cap, safe, doc_calls, elem_calls >>

\* a document registration that appends nothing when no handler is present
add_document_content_handlers_skip_empty(a) ==
    /\ builder = "live"
    /\ Len(doc_calls) + Len(elem_calls) < MaxRegs
    /\ document_content_handlers' =
           IF a[1] = None /\ a[3] = None /\ a[5] = None
           THEN document_content_handlers
           ELSE Append(document_content_handlers, ExternDocumentContentHandlers(a))
    /\ call' = Call("add_document", << >>, None)
    /\ doc_calls' = Append(doc_calls, a)
    /\ UNCHANGED << builder, element_content_handlers, element_cap, element_buf,
                    min_non_zero_cap, safe, elem_calls >>

\* cool_thing_rewriter_builder_add_document_content_handlers
cool_thing_rewriter_builder_add_document_content_handlers(a) ==
    /\ builder = "live"
    /\ Len(doc_calls) + Len(elem_calls) < MaxRegs
    /\ document_content_handlers' =
           Append(document_content_handlers, ExternDocumentContentHandlers(a))
    /\ call' = Call("add_document", << >>, None)
    /\ doc_calls' = Append(doc_calls, a)
    /\ UNCHANGED << builder, element_content_handlers, element_cap, element_buf,
                    min_non_zero_cap, safe, elem_calls >>

\* an element registration that pushes the entry before it validates the
\* selector text, and so keeps an entry when the grammar rejects it
add_element_content_handlers_push_first(selector, a) ==
    /\ builder = "live"
    /\ LET text == to_str(selector)
       IN  IF ~text.ok
           THEN /\ call' = Call("add_element", selector, ERR_CODE)
                /\ UNCHANGED << element_content_handlers, element_cap,
                                element_buf, elem_calls >>
           ELSE LET parsed == parse(text.val)
                IN  /\ Len(element_content_handlers) < MaxRegs
                    /\ element_content_handlers' =
                           push_element(element_content_handlers,
                               << parsed.val, ExternElementContentHandlers(a) >>)
                    /\ element_cap' =
                           GrownCap(element_cap, Len(element_content_handlers))
                    /\ element_buf' =
                           IF Len(element_content_handlers) < element_cap
                           THEN element_buf ELSE element_buf + 1
                    /\ IF parsed.ok
                       THEN /\ call' = Call("add_element", selector, 0)
                            /\ elem_calls' = Append(elem_calls, << selector, a >>)
                       ELSE /\ call' = Call("add_element", selector, ERR_CODE)
                            /\ UNCHANGED elem_calls
    /\ UNCHANGED << builder, document_content_handlers, min_non_zero_cap,
                    safe, doc_calls >>

\* an element registration that stores the selector without the grammar
\* check and reports success, leaving the check to a later stage
add_element_content_handlers_unvalidated(selector, a) ==
    /\ builder = "live"
    /\ LET text == to_str(selector)
       IN  IF ~text.ok
           THEN /\ call' = Call("add_element", selector, ERR_CODE)
                /\ UNCHANGED << element_content_handlers, element_cap,
                                element_buf, elem_calls >>
           ELSE /\ Len(doc_calls) + Len(elem_calls) < MaxRegs
                /\ element_content_handlers' =
                       push_element(element_content_handlers,
                           << parse(text.val).val, ExternElementContentHandlers(a) >>)
                /\ element_cap' =
                       GrownCap(element_cap, Len(element_content_handlers))
                /\ element_buf' =
                       IF Len(element_content_handlers) < element_cap
                       THEN element_buf ELSE element_buf + 1
                /\ call' = Call("add_element", selector, 0)
                /\ elem_calls' = Append(elem_calls, << selector, a >>)
    /\ UNCHANGED << builder, document_content_handlers, min_non_zero_cap,
                    safe, doc_calls >>

\* cool_thing_rewriter_builder_add_element_content_handlers
cool_thing_rewriter_builder_add_element_content_handlers(selector, a) ==
    /\ builder = "live"
    /\ LET text == to_str(selector)
       IN  IF ~text.ok
           THEN /\ call' = Call("add_element", selector, ERR_CODE)
                /\ UNCHANGED << element_content_handlers, element_cap,
                                element_buf, elem_calls >>
           ELSE LET parsed == parse(text.val)
                IN  IF ~parsed.ok
                    THEN /\ call' = Call("add_element", selector, ERR_CODE)
                         /\ UNCHANGED << element_content_handlers, element_cap,
                                         element_buf, elem_calls >>
                    ELSE /\ Len(doc_calls) + Len(elem_calls) < MaxRegs
                         /\ element_content_handlers' =
                                push_element(element_content_handlers,
                                    << parsed.val, ExternElementContentHandlers(a) >>)
                         /\ element_cap' =
                                GrownCap(element_cap, Len(element_content_handlers))
                         /\ element_buf' =
                                IF Len(element_content_handlers) < element_cap
                                THEN element_buf ELSE element_buf + 1
                         /\ call' = Call("add_element", selector, 0)
                         /\ elem_calls' = Append(elem_calls, << selector, a >>)
    /\ UNCHANGED << builder, document_content_handlers, min_non_zero_cap,
                    safe, doc_calls >>

\* a get_safe_handlers that moves the entries out of the builder's Vecs
Finalize_draining ==
    /\ builder = "live"
    /\ safe' = << get_safe_handlers(document_content_handlers,
                                    element_content_handlers, element_buf) >>
    /\ document_content_handlers' = << >>
    /\ element_content_handlers' = << >>
    /\ call' = Call("get_safe_handlers", << >>, None)
    /\ UNCHANGED << builder, element_cap, element_buf, min_non_zero_cap,
                    doc_calls, elem_calls >>

\* a get_safe_handlers that takes the builder by value and drops it
Finalize_consuming ==
    /\ builder = "live"
    /\ safe' = << get_safe_handlers(document_content_handlers,
                                    element_content_handlers, element_buf) >>
    /\ builder' = "freed"
    /\ call' = Call("get_safe_handlers", << >>, None)
    /\ UNCHANGED << document_content_handlers, element_content_handlers,
                    element_cap, element_buf, min_non_zero_cap, doc_calls,
                    elem_calls >>

\* the engine's construction step calling builder.get_safe_handlers()
Finalize ==
    /\ builder = "live"
    /\ safe' = << get_safe_handlers(document_content_handlers,
                                    element_content_handlers, element_buf) >>
    /\ call' = Call("get_safe_handlers", << >>, None)
    /\ UNCHANGED << builder, document_content_handlers, element_content_handlers,
                    element_cap, element_buf, min_non_zero_cap, doc_calls,
                    elem_calls >>

\* cool_thing_rewriter_builder_free
cool_thing_rewriter_builder_free ==
    /\ builder = "live"
    /\ builder' = "freed"
    /\ document_content_handlers' = << >>
    /\ element_content_handlers' = << >>
    /\ element_cap' = 0
    /\ call' = Call("free", << >>, None)
    /\ UNCHANGED << element_buf, min_non_zero_cap, safe, doc_calls, elem_calls >>

\* the bundle of entry i of the document or element sequence of a collection
Bundle(c, scope, i) ==
    IF scope = "document" THEN c.document[i] ELSE c.element[i][2]

\* a dispatch whose closure hands the engine what the foreign call yielded
Dispatch_forwarding(scope, i, kind, ev) ==
    /\ safe # << >>
    /\ i \in DOMAIN safe[1][scope]
    /\ LET closure == Bundle(safe[1], scope, i)[kind]
       IN  \E user_data \in (IF closure.some THEN Captured(closure) ELSE {NullPtr}),
              result \in (IF closure.some THEN ForeignResults ELSE {None}) :
             call' = [op |-> "dispatch", selector |-> << >>, ret |-> result,
                      slot |-> << scope, i, kind >>, event |-> ev,
                      foreign |->
                         IF ~closure.some THEN << >>
                         ELSE << [fn |-> closure.handler,
                                  args |-> << ev, user_data >>] >>,
                      yielded |-> IF ~closure.some THEN << >> ELSE << result >>]
    /\ UNCHANGED << builder, document_content_handlers, element_content_handlers,
                    element_cap, element_buf, min_non_zero_cap, safe, doc_calls,
                    elem_calls >>

\* the engine delivers event ev of the given kind to entry i of the last
\* collection: the closure, if the bundle has one, calls the foreign function
\* and, the function pointer types having no return type, returns ()
Dispatch(scope, i, kind, ev) ==
    /\ safe # << >>
    /\ i \in DOMAIN safe[1][scope]
    /\ LET closure == Bundle(safe[1], scope, i)[kind]
       IN  \E user_data \in (IF closure.some THEN Captured(closure) ELSE {NullPtr}),
              result \in (IF closure.some THEN ForeignResults ELSE {None}) :
             call' = [op |-> "dispatch", selector |-> << >>, ret |-> None,
                      slot |-> << scope, i, kind >>, event |-> ev,
                      foreign |->
                         IF ~closure.some THEN << >>
                         ELSE << [fn |-> closure.handler,
                                  args |-> << ev, user_data >>] >>,
                      yielded |-> IF ~closure.some THEN << >> ELSE << result >>]
    /\ UNCHANGED << builder, document_content_handlers, element_content_handlers,
                    element_cap, element_buf, min_non_zero_cap, safe, doc_calls,
                    elem_calls >>

Next ==
    \/ cool_thing_rewriter_builder_new
    \/ \E a \in DocArgInputs :
          cool_thing_rewriter_builder_add_document_content_handlers(a)
    \/ \E selector \in SelectorInputs, a \in ElemArgInputs :
          cool_thing_rewriter_builder_add_element_content_handlers(selector, a)
    \/ Finalize
    \/ cool_thing_rewriter_builder_free
    \/ \E i \in 1..MaxRegs, kind \in DocKinds, ev \in Events :
          Dispatch("document", i, kind, ev)
    \/ \E i \in 1..MaxRegs, kind \in ElemKinds, ev \in Events :
          Dispatch("element", i, kind, ev)

Spec == Init /\ [][Next]_vars

(***************************************************************************)
(* What a registration supplied and what a collection does.                *)
(***************************************************************************)
\* the position of an event kind among the three slots of a handler set
KindIndex(kind) ==
    IF kind \in {"doctype", "element"} THEN 1
    ELSE IF kind = "comments" THEN 2 ELSE 3

\* the argument list of the i-th document, or successful element, registration
Supplied(scope, i) ==
    IF scope = "document" THEN doc_calls[i] ELSE elem_calls[i][2]

SuppliedFn(scope, i, kind) == Supplied(scope, i)[2 * KindIndex(kind) - 1]

SuppliedPtr(scope, i, kind) == Supplied(scope, i)[2 * KindIndex(kind)]

\* the slot (function pointer, context pointer) number k of an argument list
SuppliedSlot(a, k) == [handler |-> a[2 * k - 1], user_data |-> a[2 * k]]

\* the foreign calls (function, context pointer) an invocation of a closure
\* can make; none for an absent closure
Behaviour(closure) ==
    IF closure.some
    THEN { [fn |-> closure.handler, user_data |-> u] : u \in Captured(closure) }
    ELSE {}

\* the foreign call the registration of a slot asks for; none if absent
Registered(scope, i, kind) ==
    IF SuppliedFn(scope, i, kind) = None THEN {}
    ELSE { [fn |-> SuppliedFn(scope, i, kind),
            user_data |-> SuppliedPtr(scope, i, kind)] }

Kinds(scope) == IF scope = "document" THEN DocKinds ELSE ElemKinds

\* the parsed form of a selector given as ASCII letters: a type selector
\* naming those letters
ParsedForm(bytes) == [type_selector |-> bytes]

\* the selector buffers the validation rejects: "[" by the grammar, 0xFF as text
NotText == { << 255 >> }

NotSelector == { << 91 >> }

\* everything observable of a collection: per entry and kind the foreign
\* calls its closure can make, and per element entry what its selector reads
View(c) ==
    [document |-> [i \in DOMAIN c.document |->
                      [k \in DocKinds |-> Behaviour(c.document[i][k])]],
     element  |-> [i \in DOMAIN c.element |->
                      [selector |-> ReadSelector(c.element[i][1]),
                       bundle   |-> [k \in ElemKinds |->
                                        Behaviour(c.element[i][2][k])]]]]

\* the same without the selectors
ClosureView(c) ==
    [document |-> View(c).document,
     element  |-> [i \in DOMAIN c.element |-> View(c).element[i].bundle]]

(***************************************************************************)
(* C1: an element registration whose selector bytes are not valid text or  *)
(* do not parse returns a nonzero status and leaves the element sequence   *)
(* and the document sequence exactly as they were.                         *)
(***************************************************************************)
C1_RejectedRegistrationChangesNothing ==
    [][ (call'.op = "add_element" /\ call'.selector \in NotText \cup NotSelector)
        => /\ call'.ret # 0
           /\ element_content_handlers' = element_content_handlers
           /\ document_content_handlers' = document_content_handlers ]_vars

\* "[" has just been rejected on a builder holding entries of both kinds
C1_Witness ==
    /\ call.op = "add_element"
    /\ call.selector = << 91 >>
    /\ call.ret = ERR_CODE
    /\ Len(element_content_handlers) >= 1
    /\ Len(document_content_handlers) >= 1

(***************************************************************************)
(* C2: an element registration with a valid selector returns 0 and appends *)
(* exactly one entry at the end of the element sequence, holding the       *)
(* parsed selector and the three slots as supplied, whichever handlers are *)
(* absent.                                                                 *)
(***************************************************************************)
C2_AcceptedRegistrationAppendsOneEntry ==
    [][ (call'.op = "add_element"
         /\ call'.selector \in SelectorInputs \ (NotText \cup NotSelector))
        => /\ call'.ret = 0
           /\ Len(elem_calls') = Len(elem_calls) + 1
           /\ LET a == elem_calls'[Len(elem_calls')][2]
              IN  element_content_handlers' =
                     Append(element_content_handlers,
                            << ParsedForm(call'.selector),
                               [element  |-> SuppliedSlot(a, 1),
                                comments |-> SuppliedSlot(a, 2),
                                text     |-> SuppliedSlot(a, 3)] >>) ]_vars

\* "div" accepted with only the element handler present, as second entry
C2_Witness ==
    /\ call.op = "add_element"
    /\ call.ret = 0
    /\ call.selector = << 100, 105, 118 >>
    /\ Len(element_content_handlers) = 2
    /\ element_content_handlers[2][2].element.handler # None
    /\ element_content_handlers[2][2].comments.handler = None
    /\ element_content_handlers[2][2].text.handler = None

(***************************************************************************)
(* C3: the document sequence of a collection just produced has one entry   *)
(* per document registration call, entry i doing what the i-th call        *)
(* supplied; a registration with all three handlers absent is counted.     *)
(***************************************************************************)
C3_DocumentEntriesFollowCalls ==
    call.op = "get_safe_handlers" =>
        /\ Len(safe[1].document) = Len(doc_calls)
        /\ \A i \in 1..Len(doc_calls) : \A k \in DocKinds :
              Behaviour(safe[1].document[i][k]) = Registered("document", i, k)

\* finalized after a registration without handlers followed by one with text only
C3_Witness ==
    /\ call.op = "get_safe_handlers"
    /\ Len(doc_calls) = 2
    /\ \A k \in DocKinds : SuppliedFn("document", 1, k) = None
    /\ SuppliedFn("document", 2, "text") # None
    /\ Len(safe[1].document) = 2

(***************************************************************************)
(* C4: the element sequence of a collection just produced lists the        *)
(* selectors of the successful element registrations in call order,        *)
(* without deduplication or reordering.                                    *)
(***************************************************************************)
C4_SelectorsInCallOrder ==
    call.op = "get_safe_handlers" =>
        /\ Len(safe[1].element) = Len(elem_calls)
        /\ \A i \in 1..Len(elem_calls) :
              ReadSelector(safe[1].element[i][1]) = { ParsedForm(elem_calls[i][1]) }

\* finalized after "a", "div", "a"
C4_Witness ==
    /\ call.op = "get_safe_handlers"
    /\ Len(safe[1].element) = 3
    /\ ReadSelector(safe[1].element[1][1]) = { ParsedForm(<< 97 >>) }
    /\ ReadSelector(safe[1].element[2][1]) = { ParsedForm(<< 100, 105, 118 >>) }
    /\ ReadSelector(safe[1].element[3][1]) = { ParsedForm(<< 97 >>) }

(***************************************************************************)
(* C5: a closure invoked after the builder was destroyed calls the foreign *)
(* function registered for its slot with the context pointer registered    *)
(* for its slot, as before the destruction.                                *)
(***************************************************************************)
C5_ClosureOutlivesBuilder ==
    (call.op = "dispatch" /\ builder = "freed"
     /\ SuppliedFn(call.slot[1], call.slot[2], call.slot[3]) # None)
    => call.foreign =
          << [fn   |-> SuppliedFn(call.slot[1], call.slot[2], call.slot[3]),
              args |-> << call.event,
                          SuppliedPtr(call.slot[1], call.slot[2], call.slot[3]) >>] >>

\* the text closure of an element entry has run after the destruction
C5_Witness ==
    /\ call.op = "dispatch"
    /\ builder = "freed"
    /\ call.slot[1] = "element"
    /\ call.slot[3] = "text"
    /\ call.foreign # << >>

(***************************************************************************)
(* C6 as stated: after the builder is destroyed the whole collection is    *)
(* still valid, the selector of each element entry included.               *)
(***************************************************************************)
C6_WholeCollectionOutlivesBuilder ==
    (builder = "freed" /\ safe # << >>) =>
        /\ ClosureView(safe[1]) =
              [document |-> [i \in DOMAIN safe[1].document |->
                               [k \in DocKinds |-> Registered("document", i, k)]],
               element  |-> [i \in DOMAIN safe[1].element |->
                               [k \in ElemKinds |-> Registered("element", i, k)]]]
        /\ \A i \in DOMAIN safe[1].element :
              ReadSelector(safe[1].element[i][1]) = { ParsedForm(elem_calls[i][1]) }

(***************************************************************************)
(* C6 amended: whatever happens to the builder, the closures of a          *)
(* collection do what was registered (they hold their own copies of the    *)
(* function and context pointers); the selector of an element entry is a   *)
(* reference into the builder's element sequence: it reads the registered  *)
(* selector while that reference is valid, and dangles once the builder    *)
(* is destroyed.                                                           *)
(***************************************************************************)
C6_ClosuresOutliveBuilderSelectorsDoNot ==
    safe # << >> =>
        /\ ClosureView(safe[1]) =
              [document |-> [i \in DOMAIN safe[1].document |->
                               [k \in DocKinds |-> Registered("document", i, k)]],
               element  |-> [i \in DOMAIN safe[1].element |->
                               [k \in ElemKinds |-> Registered("element", i, k)]]]
        /\ \A i \in DOMAIN safe[1].element :
              /\ RefValid(safe[1].element[i][1]) =>
                    ReadSelector(safe[1].element[i][1])
                       = { ParsedForm(elem_calls[i][1]) }
              /\ builder = "freed" => ~RefValid(safe[1].element[i][1])

\* a destroyed builder and a collection with document and element closures
C6_Witness ==
    /\ builder = "freed"
    /\ safe # << >>
    /\ Len(safe[1].document) >= 1
    /\ Len(safe[1].element) >= 1
    /\ safe[1].element[1][2].element.some
    /\ \E k \in DocKinds : safe[1].document[1][k].some

(***************************************************************************)
(* C7 as stated: a registration after finalization, successful or not,     *)
(* leaves the collection with the same entries, selectors and closure      *)
(* behaviour.                                                              *)
(***************************************************************************)
C7_CollectionIndependentOfRegistration ==
    [][ (call'.op \in {"add_document", "add_element"} /\ safe # << >>)
        => /\ safe' # << >>
           /\ View(safe[1])' = View(safe[1]) ]_vars

(***************************************************************************)
(* C7 amended: a registration after finalization leaves the collection's   *)
(* entries and closure behaviour as produced; its selectors read the same  *)
(* after a document registration, a failed element registration, and a     *)
(* successful element registration that does not reallocate the element    *)
(* sequence's storage.                                                     *)
(***************************************************************************)
C7_CollectionSurvivesRegistrationWithoutReallocation ==
    [][ (call'.op \in {"add_document", "add_element"} /\ safe # << >>)
        => /\ safe' = safe
           /\ ClosureView(safe[1])' = ClosureView(safe[1])
           /\ (call'.op = "add_document" \/ call'.ret # 0
               \/ element_buf' = element_buf)
              => View(safe[1])' = View(safe[1]) ]_vars

\* an element was registered after a finalization that saw one element, and
\* the collection's selector reference is still valid
C7_Witness ==
    /\ call.op = "add_element"
    /\ call.ret = 0
    /\ safe # << >>
    /\ Len(safe[1].element) = 1
    /\ Len(element_content_handlers) = 2
    /\ RefValid(safe[1].element[1][1])
    /\ element_content_handlers[2][1] # element_content_handlers[1][1]

(***************************************************************************)
(* C8: finalizing again, with no registration since the last finalization, *)
(* yields a collection with the same lengths, the same selectors, the same *)
(* present slots and closures making the same foreign calls.               *)
(***************************************************************************)
C8_FinalizationIdempotent ==
    call.op = "get_safe_handlers" =>
        LET again == get_safe_handlers(document_content_handlers,
                                       element_content_handlers, element_buf)
        IN  /\ Len(again.document) = Len(safe[1].document)
            /\ Len(again.element) = Len(safe[1].element)
            /\ View(again) = View(safe[1])

\* finalized with entries of both kinds
C8_Witness ==
    /\ call.op = "get_safe_handlers"
    /\ Len(safe[1].document) >= 1
    /\ Len(safe[1].element) >= 2

(***************************************************************************)
(* C9: a bundle has a closure for an event kind exactly if the             *)
(* registration supplied a function pointer for that kind, and an event of *)
(* an absent kind reaches no foreign function.                             *)
(***************************************************************************)
C9_AbsenceHonored ==
    /\ safe # << >> =>
          \A scope \in {"document", "element"} : \A i \in DOMAIN safe[1][scope] :
             \A k \in Kinds(scope) :
                Bundle(safe[1], scope, i)[k].some <=> SuppliedFn(scope, i, k) # None
    /\ (call.op = "dispatch"
        /\ SuppliedFn(call.slot[1], call.slot[2], call.slot[3]) = None)
       => call.foreign = << >>

\* one document bundle with only a text closure, one element entry with only
\* an element closure, and a comment event delivered to the document bundle
C9_Witness ==
    /\ call.op = "dispatch"
    /\ call.slot = << "document", 1, "comments" >>
    /\ call.foreign = << >>
    /\ Len(safe[1].document) = 1
    /\ Len(safe[1].element) = 1
    /\ safe[1].document[1].text.some
    /\ ~safe[1].document[1].doctype.some
    /\ safe[1].element[1][2].element.some
    /\ ~safe[1].element[1][2].text.some

(***************************************************************************)
(* C10: finalization leaves the builder alive and its document and element *)
(* sequences unchanged, so that registrations, finalizations and the       *)
(* destruction can follow.                                                 *)
(***************************************************************************)
C10_FinalizationKeepsBuilder ==
    [][ call'.op = "get_safe_handlers"
        => /\ builder' = "live"
           /\ document_content_handlers' = document_content_handlers
           /\ element_content_handlers' = element_content_handlers
           /\ element_buf' = element_buf ]_vars

\* after a finalization of a non-empty builder the destruction, another
\* finalization and a registration are enabled
C10_Witness ==
    /\ call.op = "get_safe_handlers"
    /\ Len(document_content_handlers) >= 1
    /\ Len(element_content_handlers) >= 1
    /\ Len(doc_calls) + Len(elem_calls) < MaxRegs
    /\ ENABLED cool_thing_rewriter_builder_free
    /\ ENABLED Finalize
    /\ ENABLED cool_thing_rewriter_builder_add_document_content_handlers(
                  << None, NullPtr, None, NullPtr, "H1", 1 >>)

(***************************************************************************)
(* C11: the selector is validated in the registration call, never at       *)
(* finalization: every selector the element sequence holds is the parsed   *)
(* form of a buffer the validation accepts; a failure status comes only    *)
(* from an element registration, the one that supplied a rejected buffer;  *)
(* and finalization of a live builder is always possible and always yields *)
(* a collection, without a status.                                         *)
(***************************************************************************)
C11_ValidationAtRegistrationOnly ==
    /\ Len(element_content_handlers) <= Len(elem_calls)
    /\ \A i \in 1..Len(element_content_handlers) :
          /\ elem_calls[i][1] \in SelectorInputs \ (NotText \cup NotSelector)
          /\ element_content_handlers[i][1] = ParsedForm(elem_calls[i][1])
    /\ call.op = "add_element" =>
          (call.ret # 0 <=> call.selector \in NotText \cup NotSelector)
    /\ call.op # "add_element" => call.ret = None
    /\ builder = "live" => ENABLED Finalize
    /\ call.op = "get_safe_handlers" =>
          /\ safe # << >>
          /\ Len(safe[1].element) = Len(element_content_handlers)

\* finalized with two stored selectors, after which "[" was rejected
C11_Witness ==
    /\ call.op = "add_element"
    /\ call.selector = << 91 >>
    /\ call.ret # 0
    /\ safe # << >>
    /\ Len(safe[1].element) = 2
    /\ Len(element_content_handlers) = 2
(***************************************************************************)
(* C12: an invocation of a closure makes exactly one foreign call: to the  *)
(* function registered for that slot, with the event it was given and the  *)
(* context pointer registered for that slot of that registration, not the  *)
(* pointer of another kind or of another registration.                     *)
(***************************************************************************)
C12_OneCallWithOwnContext ==
    (call.op = "dispatch"
     /\ SuppliedFn(call.slot[1], call.slot[2], call.slot[3]) # None)
    => /\ Len(call.foreign) = 1
       /\ call.foreign[1].fn =
             SuppliedFn(call.slot[1], call.slot[2], call.slot[3])
       /\ call.foreign[1].args[1] = call.event
       /\ call.foreign[1].args[2] =
             SuppliedPtr(call.slot[1], call.slot[2], call.slot[3])

\* the comments closure of an element entry has run; the text slot of that
\* entry and the comments slot of a document registration hold the same
\* function with other context pointers
C12_Witness ==
    /\ call.op = "dispatch"
    /\ call.slot[1] = "element"
    /\ call.slot[3] = "comments"
    /\ Len(call.foreign) = 1
    /\ SuppliedFn("element", call.slot[2], "text") = call.foreign[1].fn
    /\ SuppliedPtr("element", call.slot[2], "text") # call.foreign[1].args[2]
    /\ Len(doc_calls) >= 1
    /\ SuppliedFn("document", 1, "comments") = call.foreign[1].fn
    /\ SuppliedPtr("document", 1, "comments") # call.foreign[1].args[2]
IsPrefix(s, t) ==
    /\ Len(s) <= Len(t)
    /\ \A i \in 1..Len(s) : s[i] = t[i]

(***************************************************************************)
(* C14: registration is append-only: while the builder lives, every step   *)
(* leaves each sequence a prefix of what it becomes (so the sequence at    *)
(* any earlier point is a prefix of the one at any later point) and grows  *)
(* it by at most one entry; a document registration leaves the element     *)
(* sequence unchanged and an element registration the document sequence.   *)
(***************************************************************************)
C14_RegistrationAppendOnly ==
    [][ (builder = "live" /\ builder' = "live")
        => /\ IsPrefix(document_content_handlers, document_content_handlers')
           /\ IsPrefix(element_content_handlers, element_content_handlers')
           /\ Len(document_content_handlers') + Len(element_content_handlers')
                 <= Len(document_content_handlers)
                    + Len(element_content_handlers) + 1
           /\ call'.op = "add_document" =>
                 element_content_handlers' = element_content_handlers
           /\ call'.op = "add_element" =>
                 document_content_handlers' = document_content_handlers ]_vars

\* "div" was appended behind "a" on a builder that holds a document entry
C14_Witness ==
    /\ call.op = "add_element"
    /\ call.ret = 0
    /\ builder = "live"
    /\ Len(document_content_handlers) = 1
    /\ Len(element_content_handlers) = 2
    /\ element_content_handlers[1][1] = ParsedForm(<< 97 >>)
    /\ element_content_handlers[2][1] = ParsedForm(<< 100, 105, 118 >>)

(***************************************************************************)
(* C15: creating a builder is always possible and yields a live builder    *)
(* with an empty document sequence and an empty element sequence; a        *)
(* finalization before any registration yields a collection without        *)
(* document bundles and without element entries; and the builder can be    *)
(* destroyed without any registration.                                     *)
(***************************************************************************)
C15_NewBuilderIsEmpty ==
    /\ builder = "none" => ENABLED cool_thing_rewriter_builder_new
    /\ call.op = "new" =>
          /\ builder = "live"
          /\ document_content_handlers = << >>
          /\ element_content_handlers = << >>
    /\ (builder = "live" /\ doc_calls = << >> /\ elem_calls = << >>) =>
          /\ LET c == get_safe_handlers(document_content_handlers,
                                        element_content_handlers, element_buf)
             IN  Len(c.document) = 0 /\ Len(c.element) = 0
          /\ ENABLED cool_thing_rewriter_builder_free
    /\ (call.op = "get_safe_handlers" /\ doc_calls = << >> /\ elem_calls = << >>) =>
          Len(safe[1].document) = 0 /\ Len(safe[1].element) = 0
    /\ call.op = "free" => builder = "freed"

\* created, finalized and destroyed without a registration
C15_Witness ==
    /\ call.op = "free"
    /\ builder = "freed"
    /\ doc_calls = << >>
    /\ elem_calls = << >>
    /\ safe # << >>
    /\ Len(safe[1].document) = 0
    /\ Len(safe[1].element) = 0

=============================================================================
